---- MODULE Spec2Model ----
(***************************************************************************)
(* A model of passcheck.py: the strength scorer, the breach check, the     *)
(* password generator, the history log and the interactive main loop with  *)
(* its spinner thread.                                                     *)
(*                                                                         *)
(* A Python str is a sequence of one-character strings.                    *)
(***************************************************************************)
EXTENDS Integers, Sequences, FiniteSets, TLC

VARIABLES
    \* check_password_strength
    password, rawScore, score, feedback, warnings, scorerPc,
    \* check_breach_status
    breachPassword, request, response, breachResult,
    prevPassword, prevRequest, breachPc,
    \* generate_secure_password and its two callers
    genPath, genInput, genLength, genExclude, genTape, genPassword, genPc,
    \* self.history, the history file, and what was ever loaded or added
    history, historyFile, allEntries, adds, lastSave,
    \* the main thread of the interactive mode and the spinner thread
    mainPc, mainPassword, mainResult, exitStatus, shown,
    spinner_thread, stop_spinner, idx

scorerVars == <<password, rawScore, score, feedback, warnings, scorerPc>>

breachVars ==
    <<breachPassword, request, response, breachResult,
      prevPassword, prevRequest, breachPc>>

genVars ==
    <<genPath, genInput, genLength, genExclude, genTape, genPassword, genPc>>

histVars == <<history, historyFile, allEntries, adds, lastSave>>

mainVars ==
    <<mainPc, mainPassword, mainResult, exitStatus, shown,
      spinner_thread, stop_spinner, idx>>

vars == <<scorerVars, breachVars, genVars, histVars, mainVars>>

(***************************************************************************)
(* Strings.                                                                *)
(***************************************************************************)
ascii_lowercase ==
    <<"a","b","c","d","e","f","g","h","i","j","k","l","m",
      "n","o","p","q","r","s","t","u","v","w","x","y","z">>

ascii_uppercase ==
    <<"A","B","C","D","E","F","G","H","I","J","K","L","M",
      "N","O","P","Q","R","S","T","U","V","W","X","Y","Z">>

digits == <<"0","1","2","3","4","5","6","7","8","9">>

Range(s) == {s[i] : i \in 1..Len(s)}

Min(a, b) == IF a < b THEN a ELSE b

Max(a, b) == IF a > b THEN a ELSE b

\* The index of character c in the sequence s (0 when absent).
IndexOf(c, s) ==
    IF c \in Range(s) THEN CHOOSE i \in 1..Len(s) : s[i] = c ELSE 0

\* str.lower() on one character.
LowerChar(c) ==
    IF c \in Range(ascii_uppercase)
    THEN ascii_lowercase[IndexOf(c, ascii_uppercase)]
    ELSE c

\* str.lower()
Lower(s) == [i \in 1..Len(s) |-> LowerChar(s[i])]

\* Whether w occurs in s as a substring.
Contains(s, w) ==
    \E i \in 1..(Len(s) - Len(w) + 1) : SubSeq(s, i, i + Len(w) - 1) = w

\* The concatenation of a sequence of strings.
RECURSIVE Concat(_)
Concat(ss) == IF ss = <<>> THEN <<>> ELSE Head(ss) \o Concat(Tail(ss))

(***************************************************************************)
(* check_password_strength                                                 *)
(***************************************************************************)
\* [a-z]
HasLower(pw) == \E i \in 1..Len(pw) : pw[i] \in Range(ascii_lowercase)

\* [A-Z]
HasUpper(pw) == \E i \in 1..Len(pw) : pw[i] \in Range(ascii_uppercase)

\* \d
HasDigit(pw) == \E i \in 1..Len(pw) : pw[i] \in Range(digits)

SpecialChars ==
    {"!","@","#","$","%","^","&","*","(",")",",",".","?","\"",":","{","}","|","<",">"}

\* [!@#$%^&*(),.?":{}|<>]
HasSpecial(pw) == \E i \in 1..Len(pw) : pw[i] \in SpecialChars

\* (123|abc|qwe|asd|zxc|password|admin)
CommonPatterns ==
    { <<"1","2","3">>, <<"a","b","c">>, <<"q","w","e">>, <<"a","s","d">>,
      <<"z","x","c">>, <<"p","a","s","s","w","o","r","d">>,
      <<"a","d","m","i","n">> }

\* re.search(r'(123|abc|qwe|asd|zxc|password|admin)', password.lower())
MatchesCommonPattern(pw) == \E w \in CommonPatterns : Contains(Lower(pw), w)

\* re.search(r'(19|20)\d{2}', password)
MatchesDate(pw) ==
    \E i \in 1..(Len(pw) - 3) :
        /\ SubSeq(pw, i, i + 1) \in { <<"1","9">>, <<"2","0">> }
        /\ pw[i + 2] \in Range(digits)
        /\ pw[i + 3] \in Range(digits)

\* The running state of an evaluation: the three locals of the function.
Earn(st, points, message) ==
    [st EXCEPT !.score = @ + points, !.feedback = Append(@, message)]

Warn(st, message) == [st EXCEPT !.warnings = Append(@, message)]

Penalize(st, points, message) ==
    [st EXCEPT !.score = @ - points, !.warnings = Append(@, message)]

LengthStep(st, pw) ==
    IF Len(pw) >= 16 THEN Earn(st, 35, "Excellent length (16+ characters)")
    ELSE IF Len(pw) >= 12 THEN Earn(st, 25, "Good length (12-15 characters)")
    ELSE IF Len(pw) >= 8 THEN Earn(st, 15, "Minimum acceptable length")
    ELSE Warn(st, "Too short - use at least 8 characters")

LowerStep(st, pw) ==
    IF HasLower(pw) THEN Earn(st, 10, "Contains lowercase letters")
    ELSE Warn(st, "Add lowercase letters")

UpperStep(st, pw) ==
    IF HasUpper(pw) THEN Earn(st, 10, "Contains uppercase letters")
    ELSE Warn(st, "Add uppercase letters")

DigitStep(st, pw) ==
    IF HasDigit(pw) THEN Earn(st, 10, "Contains numbers")
    ELSE Warn(st, "Add numbers")

SpecialStep(st, pw) ==
    IF HasSpecial(pw) THEN Earn(st, 15, "Contains special characters")
    ELSE Warn(st, "Add special characters")

\* unique_ratio = len(set(password)) / len(password), compared with 0.8 and
\* 0.6.  The quotient of two integers below 2^53 is correctly rounded, and
\* k/n with n far below 2^52 is never within half an ulp of 4/5 or 3/5
\* unless it equals it, so the float comparisons are the exact ones.
DiversityStep(st, pw) ==
    IF Len(pw) >= 8
    THEN LET unique == Cardinality(Range(pw))
         IN  IF 10 * unique > 8 * Len(pw)
             THEN Earn(st, 15, "Excellent character diversity")
             ELSE IF 10 * unique > 6 * Len(pw)
             THEN Earn(st, 10, "Good character diversity")
             ELSE Warn(st, "Too many repeated characters")
    ELSE Warn(st, "Password too short for proper diversity")

\* A penalty taken once for every deny-list entry that occurs.
PatternStepPerEntry(st, pw) ==
    LET n == Cardinality({w \in CommonPatterns : Contains(Lower(pw), w)})
        RECURSIVE Times(_, _)
        Times(s, k) ==
            IF k = 0 THEN s
            ELSE Times(Penalize(s, 15, "Contains common patterns or words"), k - 1)
    IN  Times(st, n)

PatternStep(st, pw) ==
    IF MatchesCommonPattern(pw)
    THEN Penalize(st, 15, "Contains common patterns or words")
    ELSE st

DateStep(st, pw) ==
    IF MatchesDate(pw) THEN Penalize(st, 10, "Avoid using dates") ELSE st

\* A clamp that forgets the lower end.
ClampNoFloor(s) == Min(100, s)

\* max(0, min(100, score))
Clamp(s) == Max(0, Min(100, s))

\* The locals score, feedback, warnings at the return statement.
Evaluate(pw) ==
    DateStep(PatternStep(DiversityStep(SpecialStep(DigitStep(UpperStep(
        LowerStep(LengthStep(
            [score |-> 0, feedback |-> <<>>, warnings |-> <<>>], pw),
        pw), pw), pw), pw), pw), pw), pw)

\* The returned triple, with the unclamped score beside it.
check_password_strength(pw) ==
    LET st == Evaluate(pw)
    IN  [raw |-> st.score, score |-> Clamp(st.score),
         feedback |-> st.feedback, warnings |-> st.warnings]

\* get_strength_rating, the label only.
get_strength_rating(s) ==
    IF s >= 90 THEN "EXCELLENT"
    ELSE IF s >= 70 THEN "STRONG"
    ELSE IF s >= 50 THEN "MODERATE"
    ELSE IF s >= 30 THEN "WEAK"
    ELSE "VERY WEAK"

(***************************************************************************)
(* The passwords the scorer is run on: every concatenation of at most      *)
(* MaxTokens tokens.                                                       *)
(***************************************************************************)
MaxTokens == 3

Tokens ==
    { <<"a","b","c">>,
      <<"1","2","3">>,
      <<"P","a","s","s","w","o","r","d">>,
      <<"2","0","2","1">>,
      <<"x">>,
      <<"!">>,
      <<"Z","k","9","$","L","m","4","&">>,
      <<"H","y","5","%","T","n","6","@">> }

Passwords ==
    UNION { {Concat(ts) : ts \in [1..n -> Tokens]} : n \in 0..MaxTokens }

ScorerIdle ==
    /\ password = <<>>
    /\ rawScore = 0
    /\ score = 0
    /\ feedback = <<>>
    /\ warnings = <<>>
    /\ scorerPc = "idle"

ScorerInit ==
    /\ password \in Passwords
    /\ rawScore = 0
    /\ score = 0
    /\ feedback = <<>>
    /\ warnings = <<>>
    /\ scorerPc = "call"

CheckPasswordStrength ==
    /\ scorerPc = "call"
    /\ LET r == check_password_strength(password)
       IN  /\ rawScore' = r.raw
           /\ score' = r.score
           /\ feedback' = r.feedback
           /\ warnings' = r.warnings
    /\ scorerPc' = "returned"
    /\ UNCHANGED password

(***************************************************************************)
(* check_breach_status                                                     *)
(***************************************************************************)
PwPassword == <<"p","a","s","s","w","o","r","d">>

PwA == <<"p","w","2","0","0","1">>

PwB == <<"p","w","2","5","0","1">>

\* The passwords the breach check is run on.  The digests of PwA and PwB
\* begin with the same five hexadecimal digits.
BreachPasswords == {PwPassword, PwA, PwB}

\* hashlib.sha1(password.encode()).hexdigest(), tabulated on BreachPasswords.
Sha1HexDigest(pw) ==
    CASE pw = PwPassword ->
           <<"5","b","a","a","6","1","e","4","c","9","b","9","3","f","3","f","0","6","8","2","2","5","0","b","6","c","f","8","3","3","1","b","7","e","e","6","8","f","d","8">>
      [] pw = PwA ->
           <<"d","c","0","a","5","5","4","1","1","c","0","e","5","0","f","2","1","0","b","6","1","c","9","b","5","2","8","7","f","6","4","2","3","4","9","a","d","e","0","f">>
      [] pw = PwB ->
           <<"d","c","0","a","5","7","b","8","1","7","b","9","8","a","b","3","a","5","9","8","8","5","0","a","5","f","2","3","4","d","9","2","e","8","9","1","3","8","d","1">>

HexLower == <<"a","b","c","d","e","f">>

HexUpper == <<"A","B","C","D","E","F">>

\* str.upper() on a hexadecimal digest.
Upper(s) ==
    [i \in 1..Len(s) |->
        IF s[i] \in Range(HexLower) THEN HexUpper[IndexOf(s[i], HexLower)]
        ELSE s[i]]

sha1_hash(pw) == Upper(Sha1HexDigest(pw))

\* sha1_hash[:5]
Prefix(pw) == SubSeq(sha1_hash(pw), 1, Min(5, Len(sha1_hash(pw))))

\* sha1_hash[5:]
Suffix(pw) == SubSeq(sha1_hash(pw), 6, Len(sha1_hash(pw)))

RangeEndpoint ==
    <<"h","t","t","p","s",":","/","/","a","p","i",".","p","w","n","e","d","p","a","s","s","w","o","r","d","s",".","c","o","m","/","r","a","n","g","e","/">>

\* A request that carries the whole digest.
BuildRequestFullHash(pw) ==
    [method |-> "GET",
     url |-> RangeEndpoint \o sha1_hash(pw),
     headers |-> [UserAgent |-> "PassCheck-Security-Tool"],
     timeout |-> 10]

\* The arguments of requests.get.
BuildRequest(pw) ==
    [method |-> "GET",
     url |-> RangeEndpoint \o Prefix(pw),
     headers |-> [UserAgent |-> "PassCheck-Security-Tool"],
     timeout |-> 10]

\* The j-th smallest element of a set of integers.
Nth(S, j) == CHOOSE e \in S : Cardinality({x \in S : x < e}) = j - 1

\* The positions at which a line end (\n, \r or \r\n) is complete.
LineEnds(s) ==
    {i \in 1..Len(s) :
        \/ s[i] = "\n"
        \/ s[i] = "\r" /\ ~(i < Len(s) /\ s[i + 1] = "\n")}

\* Where the line end that is complete at e begins.
LineEndStart(s, e) ==
    IF s[e] = "\n" /\ e > 1 /\ s[e - 1] = "\r" THEN e - 1 ELSE e

\* str.splitlines(), for the line ends \n, \r and \r\n: a line for each line
\* end, and one more for what follows the last when that is not empty.
Splitlines(s) ==
    LET E == LineEnds(s)
        k == Cardinality(E)
        start(j) == IF j = 1 THEN 1 ELSE Nth(E, j - 1) + 1
        n == IF start(k + 1) <= Len(s) THEN k + 1 ELSE k
    IN  [j \in 1..n |->
            IF j <= k THEN SubSeq(s, start(j), LineEndStart(s, Nth(E, j)) - 1)
            ELSE SubSeq(s, start(j), Len(s))]

\* str.split(sep) for a one-character separator: one part more than there
\* are separators.
Split(s, sep) ==
    LET P == {i \in 1..Len(s) : s[i] = sep}
        k == Cardinality(P)
    IN  [j \in 1..(k + 1) |->
            SubSeq(s, IF j = 1 THEN 1 ELSE Nth(P, j - 1) + 1,
                      IF j = k + 1 THEN Len(s) ELSE Nth(P, j) - 1)]

Whitespace == {" ", "\t", "\n", "\r", "\f"}

\* str.strip()
RECURSIVE Strip(_)
Strip(s) ==
    IF s = <<>> THEN s
    ELSE IF Head(s) \in Whitespace THEN Strip(Tail(s))
    ELSE IF s[Len(s)] \in Whitespace THEN Strip(SubSeq(s, 1, Len(s) - 1))
    ELSE s

\* The value of a string of decimal digits.
RECURSIVE DecimalValue(_)
DecimalValue(s) ==
    IF s = <<>> THEN 0
    ELSE 10 * DecimalValue(SubSeq(s, 1, Len(s) - 1))
         + (IndexOf(s[Len(s)], digits) - 1)

\* int(s): surrounding whitespace is dropped, one sign is allowed, and the
\* rest is one or more decimal digits; anything else is a ValueError.
\* (Digit-group underscores are left out.)
IntBody(s) ==
    LET t == Strip(s)
    IN  IF t # <<>> /\ Head(t) \in {"+", "-"} THEN Tail(t) ELSE t

IntValid(s) ==
    /\ IntBody(s) # <<>>
    /\ \A i \in 1..Len(IntBody(s)) : IntBody(s)[i] \in Range(digits)

IntValue(s) ==
    LET t == Strip(s)
    IN  IF Head(t) = "-" THEN 0 - DecimalValue(IntBody(s))
        ELSE DecimalValue(IntBody(s))

Return(found, count) ==
    [kind |-> "return", found |-> found, count |-> count]

Raise(exc) == [kind |-> "raise", exc |-> exc]

\* A scan that keeps the last line whose suffix matches.
RECURSIVE ScanLinesLastMatch(_, _, _)
ScanLinesLastMatch(lines, suffix, i) ==
    IF i > Len(lines) THEN Return("False", 0)
    ELSE LET parts == Split(lines[i], ":")
             rest == ScanLinesLastMatch(lines, suffix, i + 1)
         IN  IF Len(parts) # 2 THEN Raise("ValueError")
             ELSE IF parts[1] = suffix /\ rest.kind = "return"
                     /\ rest.found = "False"
             THEN (IF IntValid(parts[2])
                   THEN Return("True", IntValue(parts[2]))
                   ELSE Raise("ValueError"))
             ELSE rest

\* The for loop over response.text.splitlines(), from line i on, and the
\* return after it.
RECURSIVE ScanLines(_, _, _)
ScanLines(lines, suffix, i) ==
    IF i > Len(lines) THEN Return("False", 0)
    ELSE LET parts == Split(lines[i], ":")
         IN  IF Len(parts) # 2 THEN Raise("ValueError")
             ELSE IF parts[1] = suffix
             THEN (IF IntValid(parts[2])
                   THEN Return("True", IntValue(parts[2]))
                   ELSE Raise("ValueError"))
             ELSE ScanLines(lines, suffix, i + 1)

\* The outcome of check_breach_status(pw) when requests.get ends as resp:
\* a response, or a requests.RequestException (a timeout, a connection error).
check_breach_status(pw, resp) ==
    IF resp.kind = "RequestException" THEN Return("None", 0)
    ELSE IF resp.status_code = 200
    THEN ScanLines(Splitlines(resp.text), Suffix(pw), 1)
    ELSE Return("None", 0)

(***************************************************************************)
(* The responses the breach check is run on: a transport failure, or one   *)
(* of two status codes with a body of at most MaxLines lines.              *)
(***************************************************************************)
MaxLines == 2

Colon == <<":">>

BodyLines ==
    { Suffix(PwPassword) \o Colon \o <<"3","7">>,
      Suffix(PwPassword) \o Colon \o <<"9">>,
      Suffix(PwA) \o Colon \o <<"2">>,
      Suffix(PwB) \o Colon \o <<"5">>,
      <<"g","a","r","b","a","g","e">>,
      Suffix(PwPassword) \o Colon \o <<"x","1">>,
      <<"A","1",":","1",":","2">>,
      <<>> }

\* The lines joined by \r\n, as the service sends them.
RECURSIVE JoinLines(_)
JoinLines(ls) ==
    IF ls = <<>> THEN <<>>
    ELSE IF Len(ls) = 1 THEN Head(ls)
    ELSE Head(ls) \o <<"\r", "\n">> \o JoinLines(Tail(ls))

Bodies ==
    UNION { {JoinLines(ls) : ls \in [1..n -> BodyLines]} : n \in 0..MaxLines }

StatusCodes == {200, 503}

Responses ==
    {[kind |-> "RequestException"]}
    \cup {[kind |-> "response", status_code |-> c, text |-> b] :
             c \in StatusCodes, b \in Bodies}

NoRequest == [method |-> "none"]

NoResponse == [kind |-> "none"]

NoResult == [kind |-> "none"]

BreachIdle ==
    /\ breachPassword = <<>>
    /\ request = NoRequest
    /\ response = NoResponse
    /\ breachResult = NoResult
    /\ prevPassword = <<>>
    /\ prevRequest = NoRequest
    /\ breachPc = "idle"

\* check_breach_status up to requests.get: the digest is split and the
\* request leaves the process.
SendRequest ==
    /\ breachPc \in {"idle", "returned"}
    /\ \E pw \in BreachPasswords :
          /\ breachPassword' = pw
          /\ request' = BuildRequest(pw)
    /\ prevPassword' = breachPassword
    /\ prevRequest' = request
    /\ response' = NoResponse
    /\ breachResult' = NoResult
    /\ breachPc' = "waiting"

\* requests.get ends, and check_breach_status with it.
ReceiveResponse ==
    /\ breachPc = "waiting"
    /\ \E resp \in Responses :
          /\ response' = resp
          /\ breachResult' = check_breach_status(breachPassword, resp)
    /\ breachPc' = "returned"
    /\ UNCHANGED <<breachPassword, request, prevPassword, prevRequest>>

(***************************************************************************)
(* generate_secure_password                                                *)
(*                                                                         *)
(* Every draw of the function goes to the operating system's entropy       *)
(* source through random.SystemRandom: secrets.choice(seq) is              *)
(* seq[randbelow(len(seq))], and shuffle draws randbelow(i + 1) for i from *)
(* len(x) - 1 down to 1.  A tape fixes the outcome of every draw of one    *)
(* call; the call is made under every tape of Tapes.                       *)
(***************************************************************************)
MaxSeed == 3

Tapes == [a : 0..MaxSeed, b : 0..MaxSeed]

\* The k-th draw of a call, below n.
Randbelow(tape, k, n) == (tape.a + tape.b * k) % n

\* secrets.choice(seq) at the k-th draw.
Choice(seq, tape, k) == seq[Randbelow(tape, k, Len(seq)) + 1]

symbols == <<"!","@","#","$","%","^","&","*">>

AmbiguousChars == {"0", "O", "l", "I", "1"}

\* string.ascii_letters + string.digits + "!@#$%^&*", less '0OlI1' on request.
base_chars(exclude_ambiguous) ==
    LET all == ascii_lowercase \o ascii_uppercase \o digits \o symbols
        Keep(c) == c \notin AmbiguousChars
    IN  IF exclude_ambiguous THEN SelectSeq(all, Keep) ELSE all

\* string.digits.replace('0', '') if exclude_ambiguous else string.digits
DigitSeeds(exclude_ambiguous) ==
    LET NotZero(c) == c # "0"
    IN  IF exclude_ambiguous THEN SelectSeq(digits, NotZero) ELSE digits

\* A fill loop that runs once too often.
FillCountOneMore(length) == IF length > 3 THEN length - 3 ELSE 0

\* How often the body of "for _ in range(length - 4)" runs.
FillCount(length) == IF length > 4 THEN length - 4 ELSE 0

\* The list password before the shuffle: the four seeded characters, then
\* the fill.
Unshuffled(length, exclude_ambiguous, tape) ==
    [i \in 1..(4 + FillCount(length)) |->
        CASE i = 1 -> Choice(ascii_lowercase, tape, 1)
          [] i = 2 -> Choice(ascii_uppercase, tape, 2)
          [] i = 3 -> Choice(DigitSeeds(exclude_ambiguous), tape, 3)
          [] i = 4 -> Choice(symbols, tape, 4)
          [] OTHER -> Choice(base_chars(exclude_ambiguous), tape, i)]

\* x[i], x[j] = x[j], x[i], on positions counted from 0.
Swap(x, i, j) == [x EXCEPT ![i + 1] = x[j + 1], ![j + 1] = x[i + 1]]

\* The steps lo..hi of the shuffle of a list of n items, in order; step t
\* is the loop body for i = n - t and takes the draw that follows the
\* draws of the list.  The steps are split in halves, and the list is
\* looked at first, to keep the evaluation shallow.
RECURSIVE ShuffleSteps(_, _, _, _)
ShuffleSteps(x, tape, lo, hi) ==
    LET n == Len(x)
    IN  IF n = 0 \/ lo > hi THEN x
        ELSE IF lo = hi
        THEN Swap(x, n - lo, Randbelow(tape, n + lo, n - lo + 1))
        ELSE LET mid == (lo + hi) \div 2
             IN  ShuffleSteps(ShuffleSteps(x, tape, lo, mid), tape, mid + 1, hi)

\* secrets.SystemRandom().shuffle(password)
Shuffle(x, tape) == ShuffleSteps(x, tape, 1, Len(x) - 1)

\* ''.join(password) is the list itself here.
generate_secure_password(length, exclude_ambiguous, tape) ==
    Shuffle(Unshuffled(length, exclude_ambiguous, tape), tape)

(***************************************************************************)
(* The callers: main's --generate LENGTH [--no-ambiguous] and              *)
(* generate_password_interactive.                                          *)
(***************************************************************************)
\* str(n)
RECURSIVE DecimalDigits(_)
DecimalDigits(n) ==
    IF n < 10 THEN <<digits[n + 1]>>
    ELSE DecimalDigits(n \div 10) \o <<digits[(n % 10) + 1]>>

Str(n) == IF n < 0 THEN <<"-">> \o DecimalDigits(0 - n) ELSE DecimalDigits(n)

MaxLen == 66

\* What is typed as a length: the numbers from -2 to MaxLen, nothing, and
\* two strings that are no numbers.
LengthInputs ==
    {Str(n) : n \in (0 - 2)..MaxLen}
    \cup {<<>>, <<"a","b","c">>, <<"1","2","x">>}

\* generate_password_interactive: the length passed to the generator for
\* a menu choice and a typed length.
InteractiveLength(choice, length_input) ==
    IF choice = "2"
    THEN IF length_input = <<>> THEN 16
         ELSE IF ~IntValid(length_input) THEN 16
         ELSE IF IntValue(length_input) < 8 THEN 8
         ELSE IF IntValue(length_input) > 64 THEN 64
         ELSE IntValue(length_input)
    ELSE 16

GenIdle ==
    /\ genPath = "none"
    /\ genInput = <<>>
    /\ genLength = 0
    /\ genExclude = FALSE
    /\ genTape = [a |-> 0, b |-> 0]
    /\ genPassword = <<>>
    /\ genPc = "idle"

\* main with --generate LENGTH: argparse turns LENGTH into an int (anything
\* else ends the process in parse_args), and "if args.generate" is false
\* for 0.
MainGenerate ==
    /\ genPc = "idle"
    /\ \E arg \in LengthInputs, no_ambiguous \in BOOLEAN, tape \in Tapes :
          /\ IntValid(arg)
          /\ IntValue(arg) # 0
          /\ genInput' = arg
          /\ genLength' = IntValue(arg)
          /\ genExclude' = no_ambiguous
          /\ genTape' = tape
          /\ genPassword' =
                generate_secure_password(IntValue(arg), no_ambiguous, tape)
    /\ genPath' = "cli"
    /\ genPc' = "returned"

\* generate_password_interactive, for the stripped answers to its prompts.
GeneratePasswordInteractive ==
    /\ genPc = "idle"
    /\ \E choice \in {"1", "2", ""}, length_input \in LengthInputs,
          tape \in Tapes :
          /\ choice # "2" => length_input = <<>>
          /\ genInput' = length_input
          /\ genLength' = InteractiveLength(choice, length_input)
          /\ genExclude' = FALSE
          /\ genTape' = tape
          /\ genPassword' =
                generate_secure_password(
                    InteractiveLength(choice, length_input), FALSE, tape)
    /\ genPath' = "interactive"
    /\ genPc' = "returned"

\* The password has been printed; the locals are gone.
GenerateDone ==
    /\ genPc = "returned"
    /\ genPath' = "none"
    /\ genInput' = <<>>
    /\ genLength' = 0
    /\ genExclude' = FALSE
    /\ genTape' = [a |-> 0, b |-> 0]
    /\ genPassword' = <<>>
    /\ genPc' = "idle"

(***************************************************************************)
(* The history: load_history, add_to_history, save_history.                *)
(*                                                                         *)
(* A timestamp is a number: the entries of a loaded file carry the         *)
(* numbers up to 0, the n-th entry added carries n.                        *)
(***************************************************************************)
MaxLoaded == 52

MaxAdds == 3

\* The i-th of the k entries of a history file.
LoadedEntry(i, k) ==
    [timestamp |-> i - k,
     score |-> (13 * i) % 101,
     rating |-> get_strength_rating((13 * i) % 101),
     breach_status |-> "Clean"]

\* What the history file may be when the program starts.
InitialFiles ==
    {[kind |-> "absent"], [kind |-> "corrupt"]}
    \cup {[kind |-> "list", entries |-> [i \in 1..k |-> LoadedEntry(i, k)]] :
             k \in 0..MaxLoaded}

\* self.history after __init__: [] unless the file exists and parses.
load_history(file) == IF file.kind = "list" THEN file.entries ELSE <<>>

\* A cut that keeps the first fifty entries.
TruncateKeepOldest(h) == IF Len(h) > 50 THEN SubSeq(h, 1, 50) ELSE h

\* if len(self.history) > 50: self.history = self.history[-50:]
Truncate(h) == IF Len(h) > 50 THEN SubSeq(h, Len(h) - 49, Len(h)) ELSE h

\* The entry add_to_history builds.
HistoryEntry(now, s, rating, breach_status) ==
    [timestamp |-> now, score |-> s, rating |-> rating,
     breach_status |-> breach_status]

\* self.history after the append and the cut.
add_to_history(h, entry) == Truncate(Append(h, entry))

\* The file after save_history: rewritten, or as it was when open() fails
\* (the exception is swallowed).
save_history(h, file, outcome) ==
    IF outcome = "ok" THEN [kind |-> "list", entries |-> h] ELSE file

SaveOutcomes == {"ok", "OSError"}

\* The scores and breach labels added to the history.
AnalysisResults ==
    { [score |-> 95, breach_status |-> "Clean"],
      [score |-> 0, breach_status |-> "Compromised"] }

HistIdle ==
    /\ history = <<>>
    /\ historyFile = [kind |-> "absent"]
    /\ allEntries = <<>>
    /\ adds = 0
    /\ lastSave = "none"

\* PassCheck.__init__ with any file.
HistInit ==
    /\ historyFile \in InitialFiles
    /\ history = load_history(historyFile)
    /\ allEntries = history
    /\ adds = 0
    /\ lastSave = "none"

\* add_to_history(score, rating, breach_status), save_history included.
AddToHistoryWith(s, breach_status, outcome) ==
    LET entry ==
            HistoryEntry(adds + 1, s, get_strength_rating(s), breach_status)
    IN  /\ adds < MaxAdds
        /\ history' = add_to_history(history, entry)
        /\ allEntries' = Append(allEntries, entry)
        /\ historyFile' =
              save_history(add_to_history(history, entry), historyFile, outcome)
        /\ lastSave' = outcome
        /\ adds' = adds + 1

AddToHistory ==
    \E r \in AnalysisResults, outcome \in SaveOutcomes :
        AddToHistoryWith(r.score, r.breach_status, outcome)

(***************************************************************************)
(* The interactive mode: main, PassCheck.run and the two functions that    *)
(* show a LoadingSpinner, with the spinner's thread.                       *)
(*                                                                         *)
(* mainPc is where the main thread is.  A LoadingSpinner's thread is not a *)
(* daemon: when the main thread has ended, the interpreter waits for it    *)
(* before the process exits.                                               *)
(***************************************************************************)
MaxIdx == 2

\* The responses the analysis of the interactive mode meets.
MainResponses ==
    { [kind |-> "RequestException"],
      [kind |-> "response", status_code |-> 200,
       text |-> Suffix(PwPassword) \o Colon \o <<"3","7">>],
      [kind |-> "response", status_code |-> 200,
       text |-> <<"g","a","r","b","a","g","e">>] }

\* breach_text
BreachText(result) ==
    IF result.found = "None" THEN "Unknown"
    ELSE IF result.found = "True" THEN "Compromised"
    ELSE "Clean"

MainIdle ==
    /\ mainPc = "idle"
    /\ mainPassword = <<>>
    /\ mainResult = NoResult
    /\ exitStatus = "none"
    /\ shown = 0
    /\ spinner_thread = "none"
    /\ stop_spinner = FALSE
    /\ idx = 0

\* main has built the PassCheck and run() is at its prompt.
MainInit ==
    /\ mainPc = "menu"
    /\ mainPassword = <<>>
    /\ mainResult = NoResult
    /\ exitStatus = "none"
    /\ shown = 0
    /\ spinner_thread = "none"
    /\ stop_spinner = FALSE
    /\ idx = 0

\* LoadingSpinner(...) and LoadingSpinner.start
SpinnerStart ==
    /\ stop_spinner' = FALSE
    /\ spinner_thread' = "running"
    /\ idx' = 0

\* Option 1: a password is typed (with none, analyze_password_interactive
\* returns at once) and the first spinner starts.
AnalyzeStart ==
    /\ mainPc = "menu"
    /\ adds < MaxAdds
    /\ mainPassword' = PwPassword
    /\ SpinnerStart
    /\ mainPc' = "analyze_strength"
    /\ UNCHANGED <<mainResult, exitStatus, shown, histVars>>

\* The strength is computed; spinner.stop() sets the flag and joins.
AnalyzeStrengthDone ==
    /\ mainPc = "analyze_strength"
    /\ stop_spinner' = TRUE
    /\ mainPc' = "join_strength"
    /\ UNCHANGED <<mainPassword, mainResult, exitStatus, shown,
                   spinner_thread, idx, histVars>>

\* The join returns and the second spinner starts.
AnalyzeBreachStart ==
    /\ mainPc = "join_strength"
    /\ spinner_thread = "finished"
    /\ SpinnerStart
    /\ mainPc' = "analyze_breach"
    /\ UNCHANGED <<mainPassword, mainResult, exitStatus, shown, histVars>>

\* check_breach_status returns; spinner.stop() sets the flag and joins.
AnalyzeBreachReturns ==
    /\ mainPc = "analyze_breach"
    /\ \E resp \in MainResponses :
          /\ check_breach_status(mainPassword, resp).kind = "return"
          /\ mainResult' = check_breach_status(mainPassword, resp)
    /\ stop_spinner' = TRUE
    /\ mainPc' = "join_breach"
    /\ UNCHANGED <<mainPassword, exitStatus, shown, spinner_thread, idx,
                   histVars>>

\* check_breach_status raises: the exception leaves
\* analyze_password_interactive and run, main's "except Exception" prints
\* it and calls sys.exit(1).  Nothing on the way stops the spinner.
AnalyzeBreachRaises ==
    /\ mainPc = "analyze_breach"
    /\ \E resp \in MainResponses :
          /\ check_breach_status(mainPassword, resp).kind = "raise"
          /\ mainResult' = check_breach_status(mainPassword, resp)
    /\ exitStatus' = 1
    /\ mainPc' = "finalizing"
    /\ UNCHANGED <<mainPassword, shown, spinner_thread, stop_spinner, idx,
                   histVars>>

\* The join returns, the assessment is printed and added to the history.
AnalyzeFinish ==
    /\ mainPc = "join_breach"
    /\ spinner_thread = "finished"
    /\ \E outcome \in SaveOutcomes :
          AddToHistoryWith(
              check_password_strength(mainPassword).score,
              BreachText(mainResult),
              outcome)
    /\ spinner_thread' = "none"
    /\ mainPassword' = <<>>
    /\ mainResult' = NoResult
    /\ mainPc' = "menu"
    /\ UNCHANGED <<exitStatus, shown, stop_spinner, idx>>

\* Option 2: the spinner starts around generate_secure_password.
GenerateStart ==
    /\ mainPc = "menu"
    /\ SpinnerStart
    /\ mainPc' = "generate"
    /\ UNCHANGED <<mainPassword, mainResult, exitStatus, shown, histVars>>

GenerateStop ==
    /\ mainPc = "generate"
    /\ stop_spinner' = TRUE
    /\ mainPc' = "join_generate"
    /\ UNCHANGED <<mainPassword, mainResult, exitStatus, shown,
                   spinner_thread, idx, histVars>>

GenerateFinish ==
    /\ mainPc = "join_generate"
    /\ spinner_thread = "finished"
    /\ spinner_thread' = "none"
    /\ mainPc' = "menu"
    /\ UNCHANGED <<mainPassword, mainResult, exitStatus, shown,
                   stop_spinner, idx, histVars>>

\* Option 3: show_history prints the last ten entries.
ShowHistory ==
    /\ mainPc = "menu"
    /\ shown' = Min(10, Len(history))
    /\ UNCHANGED <<mainPc, mainPassword, mainResult, exitStatus, spinner_thread,
                   stop_spinner, idx, histVars>>

\* Option 4: run returns and main with it.
ChooseExit ==
    /\ mainPc = "menu"
    /\ exitStatus' = 0
    /\ mainPc' = "finalizing"
    /\ UNCHANGED <<mainPassword, mainResult, shown, spinner_thread,
                   stop_spinner, idx, histVars>>

\* Ctrl-C while the main thread is at a prompt, asleep, computing or in a
\* join: KeyboardInterrupt reaches main, which prints and calls sys.exit(0).
Interrupt ==
    /\ mainPc \in {"menu", "analyze_strength", "join_strength",
                   "analyze_breach", "join_breach", "generate", "join_generate"}
    /\ exitStatus' = 0
    /\ mainPc' = "finalizing"
    /\ UNCHANGED <<mainPassword, mainResult, shown, spinner_thread,
                   stop_spinner, idx, histVars>>

\* LoadingSpinner._spin, one turn of the loop.
Spin ==
    /\ spinner_thread = "running"
    /\ ~stop_spinner
    /\ idx < MaxIdx
    /\ idx' = idx + 1
    /\ UNCHANGED <<mainPc, mainPassword, mainResult, exitStatus, shown, spinner_thread,
                   stop_spinner, histVars>>

\* LoadingSpinner._spin finds stop_spinner set and returns.
SpinnerReturns ==
    /\ spinner_thread = "running"
    /\ stop_spinner
    /\ spinner_thread' = "finished"
    /\ UNCHANGED <<mainPc, mainPassword, mainResult, exitStatus, shown, stop_spinner,
                   idx, histVars>>

\* The interpreter's shutdown: every thread that is not a daemon is joined,
\* then the process exits with the status.
ProcessExit ==
    /\ mainPc = "finalizing"
    /\ spinner_thread # "running"
    /\ mainPc' = "exited"
    /\ UNCHANGED <<mainPassword, mainResult, exitStatus, shown, spinner_thread,
                   stop_spinner, idx, histVars>>

(***************************************************************************)
(* Specifications, one for each part of the program.                       *)
(***************************************************************************)
ScorerSpecInit == ScorerInit /\ BreachIdle /\ GenIdle /\ HistIdle /\ MainIdle

ScorerNext ==
    CheckPasswordStrength /\ UNCHANGED <<breachVars, genVars, histVars, mainVars>>

SpecScorer == ScorerSpecInit /\ [][ScorerNext]_vars

BreachSpecInit == ScorerIdle /\ BreachIdle /\ GenIdle /\ HistIdle /\ MainIdle

BreachNext ==
    \/ SendRequest /\ UNCHANGED <<scorerVars, genVars, histVars, mainVars>>
    \/ ReceiveResponse /\ UNCHANGED <<scorerVars, genVars, histVars, mainVars>>

SpecBreach == BreachSpecInit /\ [][BreachNext]_vars

GenSpecInit == ScorerIdle /\ BreachIdle /\ GenIdle /\ HistIdle /\ MainIdle

GenNext ==
    \/ MainGenerate /\ UNCHANGED <<scorerVars, breachVars, histVars, mainVars>>
    \/ GeneratePasswordInteractive
          /\ UNCHANGED <<scorerVars, breachVars, histVars, mainVars>>
    \/ GenerateDone /\ UNCHANGED <<scorerVars, breachVars, histVars, mainVars>>

SpecGen == GenSpecInit /\ [][GenNext]_vars

HistSpecInit == ScorerIdle /\ BreachIdle /\ GenIdle /\ HistInit /\ MainIdle

HistNext ==
    AddToHistory /\ UNCHANGED <<scorerVars, breachVars, genVars, mainVars>>

SpecHistory == HistSpecInit /\ [][HistNext]_vars

MainSpecInit == ScorerIdle /\ BreachIdle /\ GenIdle /\ HistInit /\ MainInit

MainNext ==
    \/ AnalyzeStart /\ UNCHANGED <<scorerVars, breachVars, genVars>>
    \/ AnalyzeStrengthDone /\ UNCHANGED <<scorerVars, breachVars, genVars>>
    \/ AnalyzeBreachStart /\ UNCHANGED <<scorerVars, breachVars, genVars>>
    \/ AnalyzeBreachReturns /\ UNCHANGED <<scorerVars, breachVars, genVars>>
    \/ AnalyzeBreachRaises /\ UNCHANGED <<scorerVars, breachVars, genVars>>
    \/ AnalyzeFinish /\ UNCHANGED <<scorerVars, breachVars, genVars>>
    \/ GenerateStart /\ UNCHANGED <<scorerVars, breachVars, genVars>>
    \/ GenerateStop /\ UNCHANGED <<scorerVars, breachVars, genVars>>
    \/ GenerateFinish /\ UNCHANGED <<scorerVars, breachVars, genVars>>
    \/ ShowHistory /\ UNCHANGED <<scorerVars, breachVars, genVars>>
    \/ ChooseExit /\ UNCHANGED <<scorerVars, breachVars, genVars>>
    \/ Interrupt /\ UNCHANGED <<scorerVars, breachVars, genVars>>
    \/ Spin /\ UNCHANGED <<scorerVars, breachVars, genVars>>
    \/ SpinnerReturns /\ UNCHANGED <<scorerVars, breachVars, genVars>>
    \/ ProcessExit /\ UNCHANGED <<scorerVars, breachVars, genVars>>

SpecMain == MainSpecInit /\ [][MainNext]_vars

(***************************************************************************)
(* Properties of check_password_strength, under SpecScorer.                *)
(***************************************************************************)
\* The points that go with a feedback message.
FeedbackPoints(message) ==
    CASE message = "Excellent length (16+ characters)" -> 35
      [] message = "Good length (12-15 characters)" -> 25
      [] message = "Minimum acceptable length" -> 15
      [] message = "Contains lowercase letters" -> 10
      [] message = "Contains uppercase letters" -> 10
      [] message = "Contains numbers" -> 10
      [] message = "Contains special characters" -> 15
      [] message = "Excellent character diversity" -> 15
      [] message = "Good character diversity" -> 10

RECURSIVE SumPoints(_)
SumPoints(messages) ==
    IF messages = <<>> THEN 0
    ELSE FeedbackPoints(Head(messages)) + SumPoints(Tail(messages))

\* How often a message occurs in a list.
Occurrences(messages, message) ==
    Cardinality({i \in 1..Len(messages) : messages[i] = message})

\* The deny-list entries that occur in the password, whatever the case.
PatternHits == {w \in CommonPatterns : Contains(Lower(password), w)}

\* C4: for every password, the empty one included, the returned score is an
\* integer from 0 to 100.
C4_ScoreInRange ==
    scorerPc = "returned" => score \in 0..100

\* C4: a password whose bonuses are smaller than its penalties: the sum is
\* negative and the returned score is 0.
C4_Witness ==
    /\ scorerPc = "returned"
    /\ rawScore < 0
    /\ score = 0

\* C10: the pattern penalty is taken at most once: 15 points and one
\* warning when any deny-list entry occurs, however many occur and however
\* often, and nothing when none does; the date penalty, 10 points and one
\* warning, is independent of it; the sum before the clamp is the bonuses
\* less 0, 10, 15 or 25.
C10_PatternPenaltyOnce ==
    scorerPc = "returned" =>
        LET nPattern ==
                Occurrences(warnings, "Contains common patterns or words")
            nDate == Occurrences(warnings, "Avoid using dates")
            deduction == SumPoints(feedback) - rawScore
        IN  /\ nPattern = (IF PatternHits = {} THEN 0 ELSE 1)
            /\ nDate = (IF MatchesDate(password) THEN 1 ELSE 0)
            /\ deduction = 15 * nPattern + 10 * nDate
            /\ deduction \in {0, 10, 15, 25}

\* C10: a password with more than one deny-list entry, one of them found
\* only when the case is ignored, and a date: 25 points are taken.
C10_Witness ==
    /\ scorerPc = "returned"
    /\ Cardinality(PatternHits) >= 2
    /\ \E w \in PatternHits : ~Contains(password, w)
    /\ MatchesDate(password)
    /\ Occurrences(warnings, "Contains common patterns or words") = 1
    /\ SumPoints(feedback) - rawScore = 25

(***************************************************************************)
(* Properties of check_breach_status, under SpecBreach.                    *)
(***************************************************************************)
Unknown == Return("None", 0)

\* C1: check_breach_status never raises: whatever requests.get ends with,
\* and whatever text a 200 response carries, it returns; a transport
\* failure and a status other than 200 give (None, 0).
C1_NeverRaises ==
    breachPc = "returned" =>
        /\ breachResult.kind = "return"
        /\ response.kind = "RequestException" => breachResult = Unknown
        /\ (response.kind = "response" /\ response.status_code # 200)
              => breachResult = Unknown

HexDigits == Range(digits) \cup Range(HexUpper)

\* SUFFIX:COUNT: 35 upper-case hexadecimal digits, a colon, decimal digits.
WellFormedLine(l) ==
    /\ Len(l) > 36
    /\ \A i \in 1..35 : l[i] \in HexDigits
    /\ l[36] = ":"
    /\ \A i \in 37..Len(l) : l[i] \in Range(digits)

\* The lines of the response whose suffix is the password's.
MatchingLines ==
    {i \in 1..Len(Splitlines(response.text)) :
        SubSeq(Splitlines(response.text)[i], 1, 35) = Suffix(breachPassword)}

\* The number after the colon of line i of the response.
CountOfLine(i) ==
    LET l == Splitlines(response.text)[i]
    IN  DecimalValue(SubSeq(l, 37, Len(l)))

\* C6: for a response of well-formed lines, the result is Compromised with
\* the count of the first matching line exactly when the status is 200 and
\* a line matches, Clean exactly when the status is 200 and none matches,
\* and Unknown when the status is not 200.
C6_ResultOfWellFormedResponse ==
    (/\ breachPc = "returned"
     /\ response.kind = "response"
     /\ \A i \in 1..Len(Splitlines(response.text)) :
           WellFormedLine(Splitlines(response.text)[i]))
    => LET first == CHOOSE i \in MatchingLines :
                        \A j \in MatchingLines : i <= j
       IN  /\ (response.status_code = 200 /\ MatchingLines # {})
                 => breachResult = Return("True", CountOfLine(first))
           /\ (response.status_code = 200 /\ MatchingLines = {})
                 => breachResult = Return("False", 0)
           /\ response.status_code # 200 => breachResult = Unknown
           /\ breachResult.kind = "return"
           /\ breachResult.found \in {"True", "False", "None"}
           /\ breachResult.found = "True"
                 <=> (response.status_code = 200 /\ MatchingLines # {})
           /\ breachResult.found = "False"
                 <=> (response.status_code = 200 /\ MatchingLines = {})

\* C6: a 200 response with two lines for the password's suffix and different
\* counts: the result carries the count of the first.
C6_Witness ==
    /\ breachPc = "returned"
    /\ response.kind = "response"
    /\ response.status_code = 200
    /\ \A i \in 1..Len(Splitlines(response.text)) :
          WellFormedLine(Splitlines(response.text)[i])
    /\ MatchingLines = {1, 2}
    /\ CountOfLine(1) # CountOfLine(2)
    /\ breachResult = Return("True", CountOfLine(1))

\* C7: two calls whose digests begin with the same five characters send the
\* same request, and the 35-character suffix is no part of the URL.
C7_RequestDependsOnPrefixOnly ==
    /\ (/\ breachPc # "idle"
        /\ prevRequest # NoRequest
        /\ Prefix(prevPassword) = Prefix(breachPassword))
          => prevRequest = request
    /\ breachPc # "idle" =>
          /\ ~Contains(request.url, Suffix(breachPassword))
          /\ Len(request.url) = Len(RangeEndpoint) + 5

\* C7: two different passwords with the same prefix, one call after the
\* other.
C7_Witness ==
    /\ breachPc = "returned"
    /\ prevRequest # NoRequest
    /\ prevPassword # breachPassword
    /\ Prefix(prevPassword) = Prefix(breachPassword)
    /\ Suffix(prevPassword) # Suffix(breachPassword)

(***************************************************************************)
(* Properties of generate_secure_password and its callers, under SpecGen.  *)
(***************************************************************************)
\* C2: a password generated with exclude_ambiguous holds none of 0 O l I 1.
C2_NoAmbiguousChars ==
    (genPc = "returned" /\ genExclude)
        => Range(genPassword) \cap AmbiguousChars = {}

\* How often a character occurs in a string.
CountChar(s, c) == Cardinality({i \in 1..Len(s) : s[i] = c})

\* C5: for a requested length of 4 or more the password has that length
\* and holds a lower-case letter, an upper-case letter, a digit and one of
\* !@#$%^&*, and the shuffle neither drops nor duplicates a character.
C5_LengthAndClasses ==
    (genPc = "returned" /\ genLength >= 4) =>
        /\ Len(genPassword) = genLength
        /\ Range(genPassword) \cap Range(ascii_lowercase) # {}
        /\ Range(genPassword) \cap Range(ascii_uppercase) # {}
        /\ Range(genPassword) \cap Range(digits) # {}
        /\ Range(genPassword) \cap Range(symbols) # {}
        /\ \A c \in Range(genPassword)
                 \cup Range(Unshuffled(genLength, genExclude, genTape)) :
              CountChar(genPassword, c)
                 = CountChar(Unshuffled(genLength, genExclude, genTape), c)

\* C5: a password of the smallest length, four seeded characters and
\* nothing else, that the shuffle has reordered.
C5_Witness ==
    /\ genPc = "returned"
    /\ genLength = 4
    /\ genExclude
    /\ genPassword # Unshuffled(genLength, genExclude, genTape)

\* C9: every password that comes out of the generator, on the interactive
\* paths and with --generate LENGTH, has a length from 8 to 64.
C9_LengthFrom8To64 ==
    genPc = "returned" => Len(genPassword) \in 8..64

(***************************************************************************)
(* Properties of the history, under SpecHistory.                           *)
(***************************************************************************)
\* The last n entries of a list.
LastEntries(h, n) == IF Len(h) > n THEN SubSeq(h, Len(h) - n + 1, Len(h)) ELSE h

\* C8: once add_to_history has run, the history in memory holds at most 50
\* entries, namely the latest of all that were loaded or added, in their
\* order and the newest last, and a save that succeeded wrote just these.
C8_HistoryIsLatestFifty ==
    adds >= 1 =>
        /\ Len(history) <= 50
        /\ history = LastEntries(allEntries, 50)
        /\ history[Len(history)] = allEntries[Len(allEntries)]
        /\ history[Len(history)].timestamp = adds
        /\ lastSave = "ok" => historyFile = [kind |-> "list", entries |-> history]

\* C8: a file of more than 50 entries was loaded and two entries were
\* added: more than one entry was dropped from the front at once.
C8_Witness ==
    /\ adds = 2
    /\ Len(allEntries) > 52
    /\ Len(history) = 50
    /\ lastSave = "ok"

(***************************************************************************)
(* Properties of the interactive mode, under SpecMain.                     *)
(***************************************************************************)
\* C3: when the main thread has caught an error or an interrupt and is on
\* its way out, no spinner thread is left that keeps the process alive:
\* none runs, or the one that runs has been told to stop.
C3_NoThreadKeepsProcessAlive ==
    mainPc = "finalizing" => (spinner_thread # "running" \/ stop_spinner)

====
